---- MODULE Spec2Model ----
(***************************************************************************)
(* criterion-perf-events: the Perf measurement (src/src/lib.rs).           *)
(*                                                                         *)
(* Spec      the counter lifecycle: Perf::new, start, end (statement by    *)
(*           statement), the hardware events the counter counts, and the   *)
(*           harness's add / zero / to_f64 / formatter calls.              *)
(* SpecValue add / zero / to_f64 as functions of drawn Values.             *)
(* SpecFmt   PerfFormatter's five operations on drawn inputs.              *)
(***************************************************************************)
EXTENDS Integers, Sequences, FiniteSets, TLC

VARIABLES
    pc,             \* where the single thread is: "init" (before Perf::new), "ready" (between
                    \* calls), "end_read" / "end_reset" (inside end), "aborted" (panicked)
    counter,        \* the PerfCounter inside the RefCell: [enabled, count]
    borrowFlag,     \* RefCell's borrow state: 0 unused, n > 0 shared borrows, -1 exclusive
    ret,            \* end's local `ret`
    intermediate,   \* what the last start() call returned ("none": nothing yet)
    values,         \* the Values end() has returned to the harness, oldest first
    acc,            \* the harness's accumulated Value (zero / add)
    overflowChecks, \* the build: TRUE panics on integer overflow, FALSE wraps
    panicMsg,       \* the panic message of the aborted run ("" while running)
    calls,          \* history: the counter primitives the current call invoked, in order
    failedStep,     \* history: the counter step that returned Err ("none" while none did)
    step,           \* history: what the last step was: an operation's name, or "event"
    callee,         \* history: the last of new / start / end to be called
    inWindow,       \* history: a start primitive succeeded and no stop primitive since
    sinceStart,     \* history: events that occurred in the window opened by the last start
    matched,        \* history: the calls so far alternate start, end, start, end, ...
    open            \* history: a start() has returned and its end() was not yet called

lifeVars == <<pc, counter, borrowFlag, ret, intermediate, values, acc,
              overflowChecks, panicMsg, calls, failedStep, step, callee, inWindow,
              sinceStart, matched, open>>

VARIABLES
    va, vb, vc,     \* SpecValue: three drawn Values
    vres,           \* SpecValue: the results of the last operation applied
    vop             \* SpecValue: the last operation applied

valVars == <<va, vb, vc, vres, vop>>

VARIABLES
    throughput,     \* SpecFmt: the Throughput passed: [kind, n]
    value,          \* SpecFmt: the f64 passed to format_value / format_throughput
    typical,        \* SpecFmt: the typical_value passed to scale_values / scale_throughputs
    slice,          \* SpecFmt: the values slice the scale_* operations work on
    out,            \* SpecFmt: the String the last format_* call returned
    label,          \* SpecFmt: the &'static str the last scale_* call returned
    fop,            \* history: the last formatter operation called
    before,         \* history: the slice as it was when the last scale_* call began
    selF,           \* history: the (denominator, unit) format_throughput last selected
    selS            \* history: the (denominator, unit) scale_throughputs last selected

fmtVars == <<throughput, value, typical, slice, out, label, fop, before, selF, selS>>

vars == <<lifeVars, valVars, fmtVars>>

----------------------------------------------------------------------------
(* Bounds *)

\* Value is u64 in the source; the model keeps the wrap-around at a width it can enumerate.
ValueBits == 3
\* most events counted before the workload stops producing them
MaxCount == 2
\* most end() calls of one run
MaxCycles == 2

RECURSIVE Pow2(_)
Pow2(n) == IF n = 0 THEN 1 ELSE 2 * Pow2(n - 1)

Modulus == Pow2(ValueBits)
Value == 0 .. (Modulus - 1)

----------------------------------------------------------------------------
(* The results a counter primitive can give: Ok, or an io::Error. *)

IoErrors == {"Os { code: 13, kind: PermissionDenied }", "Os { code: 9, kind: Uncategorized }"}
Results == {"Ok"} \cup IoErrors

\* faulty variant of expect: an Err is dropped and the call goes on
ExpectIgnoresErr(res, msg) == ""
\* Result::expect: the value on Ok, a panic carrying msg and the error on Err.
ExpectMsg(res, msg) == IF res = "Ok" THEN "" ELSE msg \o ": " \o res

----------------------------------------------------------------------------
(* RefCell<PerfCounter>: the runtime borrow check. *)

BorrowOk(flag) == flag >= 0
BorrowMutOk(flag) == flag = 0
TakeRef(flag) == flag + 1
TakeRefMut(flag) == flag - 1
\* faulty variant: the Ref is kept alive past its statement
LeakRef(flag) == flag
\* the temporary Ref / RefMut is dropped at the end of its statement
DropRef(flag) == flag - 1
DropRefMut(flag) == flag + 1

BorrowErrorMsg == "already mutably borrowed: BorrowError"
BorrowMutErrorMsg == "already borrowed: BorrowMutError"

----------------------------------------------------------------------------
(* The counter primitives (perfcnt's PerfCounter), as the kernel counter behaves. *)

\* PerfCounterBuilderLinux: for_pid, disable, finish
NewBuilder == [pid |-> 0, disabled |-> FALSE]
for_pid(b, p) == [b EXCEPT !.pid = p]
\* faulty variant of the builder chain: .disable() left out
disableForgotten(b) == b
disable(b) == [b EXCEPT !.disabled = TRUE]
finish(b) == [enabled |-> ~b.disabled, count |-> 0]

CounterStart(c) == [c EXCEPT !.enabled = TRUE]
CounterStop(c) == [c EXCEPT !.enabled = FALSE]
CounterRead(c) == c.count
CounterReset(c) == [c EXCEPT !.count = 0]

Call(op, res, val) == [op |-> op, res |-> res, val |-> val]

----------------------------------------------------------------------------
(* Value arithmetic *)

\* faulty variant of add: v1 + v1
addTwiceLeft(v1, v2) == (v1 + v1) % Modulus
add(v1, v2) == (v1 + v2) % Modulus
addOverflows(v1, v2) == v1 + v2 >= Modulus
zero == 0
\* u64 as f64: exact below 2^53; a float is the fraction num / den
to_f64(v) == [cls |-> "fin", num |-> v, den |-> 1]

AddOverflowMsg == "attempt to add with overflow"

----------------------------------------------------------------------------
(* The lifecycle: Perf::new, Measurement::start, Measurement::end. *)

Pid == 1
NoValue == "none"

\* the lifecycle's steps leave the other specifications' variables alone
LifeOnly == UNCHANGED <<valVars, fmtVars>>

\* the run panics with msg: nothing of this process runs afterwards
Abort(msg) ==
    /\ pc' = "aborted"
    /\ panicMsg' = msg

LifeInit ==
    /\ pc = "init"
    /\ counter = [enabled |-> FALSE, count |-> 0]   \* no counter is open yet: nothing counts
    /\ borrowFlag = 0
    /\ ret = 0
    /\ intermediate = NoValue
    /\ values = <<>>
    /\ acc = 0
    /\ overflowChecks \in BOOLEAN
    /\ panicMsg = ""
    /\ calls = <<>>
    /\ failedStep = "none"
    /\ step = "none"
    /\ callee = "none"
    /\ inWindow = FALSE
    /\ sinceStart = 0
    /\ matched = TRUE
    /\ open = FALSE

\* Perf::new: builder.for_pid(pid).disable().finish().expect("Could not create counter")
New ==
    /\ pc = "init"
    /\ LifeOnly
    /\ \E r \in Results :
        LET msg == ExpectMsg(r, "Could not create counter") IN
        /\ counter' = IF r = "Ok" THEN finish(disable(for_pid(NewBuilder, Pid))) ELSE counter
        /\ calls' = <<Call("create", r, 0)>>
        /\ failedStep' = IF r = "Ok" THEN failedStep ELSE "create"
        /\ panicMsg' = msg
        /\ pc' = IF msg = "" THEN "ready" ELSE "aborted"
    /\ step' = "new"
    /\ callee' = "new"
    /\ UNCHANGED <<borrowFlag, ret, intermediate, values, acc, overflowChecks,
                   inWindow, sinceStart, matched, open>>

\* start: self.counter.borrow().start().expect("Could not read perf counter"); 0
Start ==
    /\ pc = "ready"
    /\ LifeOnly
    /\ step' = "start"
    /\ callee' = "start"
    /\ matched' = (matched /\ ~open)
    /\ UNCHANGED <<ret, values, acc, overflowChecks>>
    /\ IF ~BorrowOk(borrowFlag)
       THEN /\ Abort(BorrowErrorMsg)
            /\ calls' = <<>>
            /\ UNCHANGED <<counter, borrowFlag, intermediate, failedStep, inWindow,
                           sinceStart, open>>
       ELSE \E r \in Results :
            LET held == TakeRef(borrowFlag)
                msg == ExpectMsg(r, "Could not read perf counter") IN
            /\ counter' = IF r = "Ok" THEN CounterStart(counter) ELSE counter
            /\ calls' = <<Call("start", r, 0)>>
            /\ failedStep' = IF r = "Ok" THEN failedStep ELSE "start"
            /\ borrowFlag' = DropRef(held)
            /\ panicMsg' = msg
            /\ pc' = IF msg = "" THEN "ready" ELSE "aborted"
            /\ intermediate' = IF msg = "" THEN 0 ELSE intermediate
            /\ inWindow' = IF r = "Ok" THEN TRUE ELSE inWindow
            /\ sinceStart' = IF r = "Ok" THEN 0 ELSE sinceStart
            /\ open' = IF msg = "" THEN TRUE ELSE open

\* faulty variant of end: the stop statement left out
EndStopOmitted ==
    /\ pc = "ready"
    /\ LifeOnly
    /\ Len(values) < MaxCycles
    /\ step' = "end"
    /\ callee' = "end"
    /\ matched' = (matched /\ open)
    /\ open' = FALSE
    /\ calls' = <<>>
    /\ pc' = "end_read"
    /\ UNCHANGED <<ret, intermediate, values, acc, overflowChecks, sinceStart,
                   counter, borrowFlag, failedStep, panicMsg, inWindow>>

\* end, first statement: self.counter.borrow().stop().expect("Could not stop perf counter")
EndStop ==
    /\ pc = "ready"
    /\ LifeOnly
    /\ Len(values) < MaxCycles
    /\ step' = "end"
    /\ callee' = "end"
    /\ matched' = (matched /\ open)
    /\ open' = FALSE
    /\ UNCHANGED <<ret, intermediate, values, acc, overflowChecks, sinceStart>>
    /\ IF ~BorrowOk(borrowFlag)
       THEN /\ Abort(BorrowErrorMsg)
            /\ calls' = <<>>
            /\ UNCHANGED <<counter, borrowFlag, failedStep, inWindow>>
       ELSE \E r \in Results :
            LET held == TakeRef(borrowFlag)
                msg == ExpectMsg(r, "Could not stop perf counter") IN
            /\ counter' = IF r = "Ok" THEN CounterStop(counter) ELSE counter
            /\ calls' = <<Call("stop", r, 0)>>
            /\ failedStep' = IF r = "Ok" THEN failedStep ELSE "stop"
            /\ borrowFlag' = DropRef(held)
            /\ panicMsg' = msg
            /\ pc' = IF msg = "" THEN "end_read" ELSE "aborted"
            /\ inWindow' = IF r = "Ok" THEN FALSE ELSE inWindow

\* end, second statement:
\* let ret = self.counter.borrow_mut().read().expect("Could not read perf counter")
EndRead ==
    /\ pc = "end_read"
    /\ LifeOnly
    /\ UNCHANGED <<intermediate, values, acc, overflowChecks, callee, inWindow,
                   sinceStart, matched, open, counter>>
    /\ step' = "end"
    /\ IF ~BorrowMutOk(borrowFlag)
       THEN /\ Abort(BorrowMutErrorMsg)
            /\ UNCHANGED <<borrowFlag, ret, calls, failedStep>>
       ELSE \E r \in Results :
            LET held == TakeRefMut(borrowFlag)
                msg == ExpectMsg(r, "Could not read perf counter") IN
            /\ ret' = IF r = "Ok" THEN CounterRead(counter) ELSE ret
            /\ calls' = Append(calls, Call("read", r, IF r = "Ok" THEN CounterRead(counter) ELSE 0))
            /\ failedStep' = IF r = "Ok" THEN failedStep ELSE "read"
            /\ borrowFlag' = DropRefMut(held)
            /\ panicMsg' = msg
            /\ pc' = IF msg = "" THEN "end_reset" ELSE "aborted"

\* faulty variant of end: the reset statement left out
EndResetSkipped ==
    /\ pc = "end_reset"
    /\ LifeOnly
    /\ UNCHANGED <<ret, intermediate, acc, overflowChecks, callee, inWindow,
                   sinceStart, matched, open, counter, borrowFlag, failedStep, panicMsg>>
    /\ step' = "end"
    /\ calls' = Append(calls, Call("reset", "Ok", 0))
    /\ values' = Append(values, ret)
    /\ pc' = "ready"

\* end, third statement and return:
\* self.counter.borrow_mut().reset().expect("Could not reset perf counter"); ret
EndReset ==
    /\ pc = "end_reset"
    /\ LifeOnly
    /\ UNCHANGED <<ret, intermediate, acc, overflowChecks, callee, inWindow,
                   sinceStart, matched, open>>
    /\ step' = "end"
    /\ IF ~BorrowMutOk(borrowFlag)
       THEN /\ Abort(BorrowMutErrorMsg)
            /\ UNCHANGED <<counter, borrowFlag, values, calls, failedStep>>
       ELSE \E r \in Results :
            LET held == TakeRefMut(borrowFlag)
                msg == ExpectMsg(r, "Could not reset perf counter") IN
            /\ counter' = IF r = "Ok" THEN CounterReset(counter) ELSE counter
            /\ calls' = Append(calls, Call("reset", r, 0))
            /\ failedStep' = IF r = "Ok" THEN failedStep ELSE "reset"
            /\ borrowFlag' = DropRefMut(held)
            /\ panicMsg' = msg
            /\ pc' = IF msg = "" THEN "ready" ELSE "aborted"
            /\ values' = IF msg = "" THEN Append(values, ret) ELSE values

\* One hardware event of the configured kind occurs in this process. The counter
\* counts it when it is enabled.
Event ==
    /\ pc \notin {"init", "aborted"}
    /\ LifeOnly
    /\ counter.count < MaxCount
    /\ sinceStart < MaxCount
    /\ counter' = IF counter.enabled THEN [counter EXCEPT !.count = @ + 1] ELSE counter
    /\ sinceStart' = IF inWindow THEN sinceStart + 1 ELSE sinceStart
    /\ UNCHANGED <<pc, borrowFlag, ret, intermediate, values, acc, overflowChecks,
                   panicMsg, calls, failedStep, callee, inWindow, matched, open>>
    /\ step' = "event"

----------------------------------------------------------------------------
(* The harness's calls of the pure operations, between start/end calls. *)

HarnessFrame == UNCHANGED <<counter, borrowFlag, ret, intermediate, values, overflowChecks,
                            calls, failedStep, callee, inWindow, sinceStart, matched, open>>

Zero ==
    /\ pc = "ready"
    /\ LifeOnly
    /\ acc' = zero
    /\ step' = "zero"
    /\ UNCHANGED <<pc, panicMsg>>
    /\ HarnessFrame

\* the harness sums the Values of its iterations: acc = add(acc, v)
Add ==
    /\ pc = "ready"
    /\ LifeOnly
    /\ \E i \in DOMAIN values :
        IF overflowChecks /\ addOverflows(acc, values[i])
        THEN Abort(AddOverflowMsg) /\ UNCHANGED acc
        ELSE acc' = add(acc, values[i]) /\ UNCHANGED <<pc, panicMsg>>
    /\ step' = "add"
    /\ HarnessFrame

\* to_f64 and formatter hand their result to the harness and change nothing of Perf;
\* SpecValue checks what to_f64 returns.
ToF64 ==
    /\ pc = "ready"
    /\ LifeOnly
    /\ step' = "to_f64"
    /\ UNCHANGED <<pc, panicMsg, acc>>
    /\ HarnessFrame

Formatter ==
    /\ pc = "ready"
    /\ LifeOnly
    /\ step' = "formatter"
    /\ UNCHANGED <<pc, panicMsg, acc>>
    /\ HarnessFrame

----------------------------------------------------------------------------
ValIdle ==
    /\ va = 0 /\ vb = 0 /\ vc = 0
    /\ vres = <<>>
    /\ vop = "none"

FmtIdle ==
    /\ throughput = [kind |-> "Bytes", n |-> 1]
    /\ value = to_f64(0)
    /\ typical = to_f64(0)
    /\ slice = <<>>
    /\ out = ""
    /\ label = ""
    /\ fop = "none"
    /\ before = <<>>
    /\ selF = <<>>
    /\ selS = <<>>

Init == LifeInit /\ ValIdle /\ FmtIdle

Next ==
    \/ New
    \/ Start
    \/ EndStop
    \/ EndRead
    \/ EndReset
    \/ Event
    \/ Zero
    \/ Add
    \/ ToF64
    \/ Formatter

Spec == Init /\ [][Next]_vars

----------------------------------------------------------------------------
(* SpecValue: add, zero and to_f64 applied to drawn Values. *)

ValOnly == UNCHANGED <<counter, borrowFlag, ret, intermediate, values, acc, overflowChecks,
                       calls, failedStep, step, callee, inWindow, sinceStart, matched,
                       open, fmtVars>>

ValInit ==
    /\ va \in Value /\ vb \in Value /\ vc \in Value
    /\ vres = <<>>
    /\ vop = "none"

\* add(zero(), a) and add(a, zero())
ValIdentity ==
    /\ pc = "init" /\ vop = "none"
    /\ ValOnly
    /\ vres' = <<add(zero, va), add(va, zero)>>
    /\ vop' = "identity"
    /\ UNCHANGED <<pc, panicMsg, va, vb, vc>>

\* add(a, b) and add(b, a)
ValCommute ==
    /\ pc = "init" /\ vop = "none"
    /\ ValOnly
    /\ UNCHANGED <<va, vb, vc>>
    /\ IF overflowChecks /\ addOverflows(va, vb)
       THEN Abort(AddOverflowMsg) /\ vop' = "panic" /\ UNCHANGED vres
       ELSE /\ vres' = <<add(va, vb), add(vb, va)>>
            /\ vop' = "commute"
            /\ UNCHANGED <<pc, panicMsg>>

\* add(add(a, b), c) and add(a, add(b, c))
ValAssoc ==
    /\ pc = "init" /\ vop = "none"
    /\ ValOnly
    /\ UNCHANGED <<va, vb, vc>>
    /\ IF overflowChecks /\ (\/ addOverflows(va, vb) \/ addOverflows(add(va, vb), vc)
                             \/ addOverflows(vb, vc) \/ addOverflows(va, add(vb, vc)))
       THEN Abort(AddOverflowMsg) /\ vop' = "panic" /\ UNCHANGED vres
       ELSE /\ vres' = <<add(add(va, vb), vc), add(va, add(vb, vc))>>
            /\ vop' = "assoc"
            /\ UNCHANGED <<pc, panicMsg>>

\* to_f64(a)
ValToF64 ==
    /\ pc = "init" /\ vop = "none"
    /\ ValOnly
    /\ vres' = <<to_f64(va)>>
    /\ vop' = "to_f64"
    /\ UNCHANGED <<pc, panicMsg, va, vb, vc>>

ValNext ==
    \/ ValIdentity
    \/ ValCommute
    \/ ValAssoc
    \/ ValToF64

InitValue == LifeInit /\ ValInit /\ FmtIdle

SpecValue == InitValue /\ [][ValNext]_vars

\* C7: for Values whose sums stay within the unsigned range, zero is add's identity
\* on both sides, add is commutative and associative, and add(a, b) is a + b.
C7_AddMonoid ==
    (va + vb + vc <= Modulus - 1) =>
        /\ vop # "panic"
        /\ vop = "identity" => vres = <<va, va>>
        /\ vop = "commute" => (vres[1] = vres[2] /\ vres[1] = va + vb)
        /\ vop = "assoc" => (vres[1] = vres[2] /\ vres[1] = va + vb + vc)

C7_Witness ==
    /\ vop = "assoc"
    /\ va > 0 /\ vb > 0 /\ vc > 0
    /\ va + vb + vc = Modulus - 1
    /\ vres = <<Modulus - 1, Modulus - 1>>

----------------------------------------------------------------------------
(* f64 arithmetic and formatting. A float is NaN, +infinity, or the exact fraction  *)
(* num / den in lowest terms; the model runs only where its integers hold the      *)
(* fractions (DivInRange, FmtInRange).                                             *)

\* most elements of a values slice
MaxLen == 2

MaxInt == (Pow2(30) - 1) + Pow2(30)

NaN == [cls |-> "nan", num |-> 0, den |-> 1]
Inf == [cls |-> "inf", num |-> 0, den |-> 1]

RECURSIVE GCD(_, _)
GCD(a, b) == IF b = 0 THEN a ELSE GCD(b, a % b)

\* x / y for an integer-valued finite y >= 0 (a u64 as f64, or a ladder denominator)
FDiv(x, y) ==
    IF x.cls = "nan" THEN NaN
    ELSE IF y.num = 0 THEN (IF x.cls = "fin" /\ x.num = 0 THEN NaN ELSE Inf)
    ELSE IF x.cls = "inf" THEN Inf
    ELSE IF x.num = 0 THEN to_f64(0)
    ELSE LET g == GCD(x.num, y.num) IN
         [cls |-> "fin", num |-> x.num \div g, den |-> x.den * (y.num \div g)]

DivInRange(x, y) ==
    IF x.cls # "fin" THEN TRUE
    ELSE IF y.num = 0 THEN TRUE
    ELSE IF x.num = 0 THEN TRUE
    ELSE x.den <= MaxInt \div (y.num \div GCD(x.num, y.num))

\* one digit of the long division of r / den
DivDigit(r, den) == (r * 10) \div den
DivRest(r, den) == (r * 10) % den

Pad4(n) ==
    ToString(n \div 1000) \o ToString((n \div 100) % 10)
        \o ToString((n \div 10) % 10) \o ToString(n % 10)

\* format!("{:.4}", x): four decimals, rounded to nearest, a tie to the even digit
Fmt4(x) ==
    IF x.cls = "nan" THEN "NaN"
    ELSE IF x.cls = "inf" THEN "inf"
    ELSE LET ip == x.num \div x.den
             r0 == x.num % x.den
             d1 == DivDigit(r0, x.den)
             r1 == DivRest(r0, x.den)
             d2 == DivDigit(r1, x.den)
             r2 == DivRest(r1, x.den)
             d3 == DivDigit(r2, x.den)
             r3 == DivRest(r2, x.den)
             d4 == DivDigit(r3, x.den)
             r4 == DivRest(r3, x.den)
             frac == d1 * 1000 + d2 * 100 + d3 * 10 + d4
             up == IF r4 > x.den - r4 THEN TRUE
                   ELSE (r4 = x.den - r4 /\ frac % 2 = 1)
             rounded == IF up THEN frac + 1 ELSE frac
         IN ToString(IF rounded = 10000 THEN ip + 1 ELSE ip) \o "." \o Pad4(rounded % 10000)

FmtInRange(x) ==
    IF x.cls # "fin" THEN TRUE
    ELSE IF x.den <= MaxInt \div 10 THEN TRUE
    ELSE (x.num % x.den) <= MaxInt \div 100000

----------------------------------------------------------------------------
(* PerfFormatter *)

\* format_value: format!("{value:.4} cycles")
format_value(v) == Fmt4(v) \o " cycles"

\* the ladder of format_throughput's BytesDecimal arm
FormatLadder(bytes) ==
    IF bytes < 1000 THEN <<to_f64(1), "events/byte">>
    ELSE IF bytes < 1000 * 1000 THEN <<to_f64(1000), "events/kilobyte">>
    ELSE IF bytes < 1000 * 1000 * 1000 THEN <<to_f64(1000 * 1000), "events/megabyte">>
    ELSE <<to_f64(1000 * 1000 * 1000), "events/gigabyte">>

\* faulty variant of the ladder: <= for <
ScaleLadderInclusive(bytes) ==
    IF bytes <= 1000 THEN <<to_f64(1), "events/byte">>
    ELSE IF bytes <= 1000 * 1000 THEN <<to_f64(1000), "events/kilobyte">>
    ELSE IF bytes <= 1000 * 1000 * 1000 THEN <<to_f64(1000 * 1000), "events/megabyte">>
    ELSE <<to_f64(1000 * 1000 * 1000), "events/gigabyte">>

\* the ladder of scale_throughputs' BytesDecimal arm
ScaleLadder(bytes) ==
    IF bytes < 1000 THEN <<to_f64(1), "events/byte">>
    ELSE IF bytes < 1000 * 1000 THEN <<to_f64(1000), "events/kilobyte">>
    ELSE IF bytes < 1000 * 1000 * 1000 THEN <<to_f64(1000 * 1000), "events/megabyte">>
    ELSE <<to_f64(1000 * 1000 * 1000), "events/gigabyte">>

format_throughput(t, v) ==
    CASE t.kind = "Bytes" -> Fmt4(FDiv(v, to_f64(t.n))) \o " events/byte"
      [] t.kind = "BytesDecimal" ->
            LET event_per_byte == FDiv(v, to_f64(t.n))
                sel == FormatLadder(t.n)
            IN Fmt4(FDiv(event_per_byte, sel[1])) \o " " \o sel[2]
      [] t.kind = "Elements" -> Fmt4(FDiv(v, to_f64(t.n))) \o " events/element"

\* faulty variant of scale_values: the slice scaled to thousands of events
scaleValuesToKilo(typ, vals) == <<[i \in DOMAIN vals |-> FDiv(vals[i], to_f64(1000))], "events">>
\* scale_values and scale_for_machines: the slice as it is, and "events"
scale_values(typ, vals) == <<vals, "events">>
scale_for_machines(vals) == <<vals, "events">>

\* faulty variant of scale_throughputs: BytesDecimal divides by the denominator only
scaleDecimalOnce(typ, t, vals) ==
    CASE t.kind = "Bytes" ->
            <<[i \in DOMAIN vals |-> FDiv(vals[i], to_f64(t.n))], "events/byte">>
      [] t.kind = "BytesDecimal" ->
            LET sel == ScaleLadder(t.n)
            IN <<[i \in DOMAIN vals |-> FDiv(vals[i], sel[1])], sel[2]>>
      [] t.kind = "Elements" ->
            <<[i \in DOMAIN vals |-> FDiv(vals[i], to_f64(t.n))], "events/element">>

\* scale_throughputs: the scaled slice and the unit
scale_throughputs(typ, t, vals) ==
    CASE t.kind = "Bytes" ->
            <<[i \in DOMAIN vals |-> FDiv(vals[i], to_f64(t.n))], "events/byte">>
      [] t.kind = "BytesDecimal" ->
            LET sel == ScaleLadder(t.n)
            IN <<[i \in DOMAIN vals |-> FDiv(FDiv(vals[i], to_f64(t.n)), sel[1])], sel[2]>>
      [] t.kind = "Elements" ->
            <<[i \in DOMAIN vals |-> FDiv(vals[i], to_f64(t.n))], "events/element">>

\* the divisions of one value stay within what the model's integers hold
ThroughputInRange(t, v) ==
    IF ~DivInRange(v, to_f64(t.n)) THEN FALSE
    ELSE IF t.kind # "BytesDecimal" THEN TRUE
    ELSE DivInRange(FDiv(v, to_f64(t.n)), FormatLadder(t.n)[1])

\* and so does the formatting of the result
FormatInRange(t, v) ==
    IF ~ThroughputInRange(t, v) THEN FALSE
    ELSE IF t.kind # "BytesDecimal" THEN FmtInRange(FDiv(v, to_f64(t.n)))
    ELSE FmtInRange(FDiv(FDiv(v, to_f64(t.n)), FormatLadder(t.n)[1]))

----------------------------------------------------------------------------
(* SpecFmt: the formatter's operations applied to drawn inputs. *)

Kinds == {"Bytes", "BytesDecimal", "Elements"}
Magnitudes == {0, 1, 512, 999, 1000, 1001, 999999, 1000000, 1000001, 2000000,
               999999999, 1000000000, 1000000001}
PlainMagnitudes == {0, 1, 512, 1000}
Throughputs ==
    [kind : {"BytesDecimal"}, n : Magnitudes]
        \cup [kind : {"Bytes", "Elements"}, n : PlainMagnitudes]
Samples == {to_f64(0), to_f64(1024), to_f64(4000000), to_f64(2000000000)}
Typicals == {to_f64(0), to_f64(1024)}
SliceSamples == {to_f64(0), to_f64(1024), to_f64(4000000)}
Slices == UNION {[1 .. k -> SliceSamples] : k \in 0 .. MaxLen}

FmtOnly == UNCHANGED <<lifeVars, valVars>>

FmtInit ==
    /\ throughput \in Throughputs
    /\ value \in Samples
    /\ typical \in Typicals
    /\ slice \in Slices
    /\ out = ""
    /\ label = ""
    /\ fop = "none"
    /\ before = slice
    /\ selF = <<>>
    /\ selS = <<>>

FormatValue ==
    /\ FmtInRange(value)
    /\ out' = format_value(value)
    /\ fop' = "format_value"
    /\ UNCHANGED <<throughput, value, typical, slice, label, before, selF, selS>>
    /\ FmtOnly

FormatThroughput ==
    /\ FormatInRange(throughput, value)
    /\ out' = format_throughput(throughput, value)
    /\ selF' = IF throughput.kind = "BytesDecimal" THEN FormatLadder(throughput.n) ELSE selF
    /\ fop' = "format_throughput"
    /\ UNCHANGED <<throughput, value, typical, slice, label, before, selS>>
    /\ FmtOnly

ScaleValues ==
    /\ before' = slice
    /\ slice' = scale_values(typical, slice)[1]
    /\ label' = scale_values(typical, slice)[2]
    /\ fop' = "scale_values"
    /\ UNCHANGED <<throughput, value, typical, out, selF, selS>>
    /\ FmtOnly

ScaleThroughputs ==
    /\ \A i \in DOMAIN slice : ThroughputInRange(throughput, slice[i])
    /\ before' = slice
    /\ slice' = scale_throughputs(typical, throughput, slice)[1]
    /\ label' = scale_throughputs(typical, throughput, slice)[2]
    /\ selS' = IF throughput.kind = "BytesDecimal" THEN ScaleLadder(throughput.n) ELSE selS
    /\ fop' = "scale_throughputs"
    /\ UNCHANGED <<throughput, value, typical, out, selF>>
    /\ FmtOnly

ScaleForMachines ==
    /\ before' = slice
    /\ slice' = scale_for_machines(slice)[1]
    /\ label' = scale_for_machines(slice)[2]
    /\ fop' = "scale_for_machines"
    /\ UNCHANGED <<throughput, value, typical, out, selF, selS>>
    /\ FmtOnly

FmtNext ==
    \/ FormatValue
    \/ FormatThroughput
    \/ ScaleValues
    \/ ScaleThroughputs
    \/ ScaleForMachines

InitFmt == LifeInit /\ overflowChecks = FALSE /\ ValIdle /\ FmtInit

SpecFmt == InitFmt /\ [][FmtNext]_vars

----------------------------------------------------------------------------
(* Claims about the lifecycle, checked under Spec. *)

Last(q) == q[Len(q)]
Ops(q) == [i \in DOMAIN q |-> q[i].op]
IsPrefix(p, q) == Len(p) <= Len(q) /\ \A i \in DOMAIN p : p[i] = q[i]
Contains(s, w) == \E i \in 1 .. (Len(s) - Len(w) + 1) : SubSeq(s, i, i + Len(w) - 1) = w
StepWords == {"create", "start", "stop", "read", "reset"}
PureOps == {"add", "zero", "to_f64", "formatter"}

\* C1: in a run of matched start/end cycles, the Value an end returns is the number
\* of events that occurred between that cycle's start and its end, and no more; a
\* cycle without events right after another cycle returns 0.
C1_ValueIsOwnCycle ==
    (matched /\ ~open /\ pc = "ready" /\ callee = "end")
        => Last(values) = sinceStart

C1_Witness ==
    /\ matched /\ ~open /\ pc = "ready" /\ callee = "end"
    /\ Len(values) = 2 /\ values[1] > 0 /\ values[2] = 0

\* C2: a call of end invokes stop, then read, then reset, each once, and returns the
\* count that read returned.
C2_StopReadReset ==
    callee = "end" =>
        /\ IsPrefix(Ops(calls), <<"stop", "read", "reset">>)
        /\ pc = "end_read" => Ops(calls) = <<"stop">>
        /\ pc = "end_reset" => Ops(calls) = <<"stop", "read">>
        /\ pc = "ready" =>
            /\ Ops(calls) = <<"stop", "read", "reset">>
            /\ Last(values) = calls[2].val

C2_Witness ==
    /\ callee = "end" /\ pc = "ready" /\ step = "end"
    /\ Last(values) > 0

\* C3: the counter is Idle after construction and after every end; only start makes
\* it Running, only end makes it Idle, an Idle counter does not count, and add, zero,
\* to_f64 and formatter leave the counter as it is.
C3_IdleRunning ==
    [][ /\ (step' = "new" /\ pc' = "ready") => ~counter'.enabled
        /\ (step' = "end" /\ pc' = "ready") => ~counter'.enabled
        /\ (~counter.enabled /\ counter'.enabled) => step' = "start"
        /\ (counter.enabled /\ ~counter'.enabled) => step' = "end"
        /\ (~counter.enabled /\ step' = "event") => counter' = counter
        /\ step' \in PureOps => counter' = counter ]_vars

C3_Witness ==
    /\ counter.enabled /\ counter.count > 0
    /\ step \in PureOps
    /\ Len(values) > 0

\* C5: the panic message of a failed counter step names that step and no other.
C5_MessageNamesFailedStep ==
    failedStep # "none" =>
        \A w \in StepWords : Contains(panicMsg, w) <=> (w = failedStep)

\* C6: a failed counter primitive ends its call there: it is the last primitive the
\* call invoked, it was invoked once, the call does not return and nothing runs after.
C6_FailureEndsCall ==
    failedStep # "none" =>
        /\ pc = "aborted"
        /\ Last(calls).op = failedStep
        /\ Last(calls).res \in IoErrors
        /\ Cardinality({i \in DOMAIN calls : calls[i].op = failedStep}) = 1
        /\ \A i \in DOMAIN calls : i < Len(calls) => calls[i].res = "Ok"
        /\ ~ENABLED Next

C6_Witness ==
    /\ failedStep = "read"
    /\ Len(values) = 1
    /\ Len(calls) = 2

\* C10: no borrow of the counter cell outlives its statement, so the runtime borrow
\* check of start and end never fails.
C10_BorrowsNeverOverlap ==
    /\ borrowFlag = 0
    /\ panicMsg \notin {BorrowErrorMsg, BorrowMutErrorMsg}

C10_Witness ==
    /\ callee = "end" /\ pc = "end_reset"
    /\ Len(values) = 1
    /\ ~matched

----------------------------------------------------------------------------
(* Claims about the formatter, checked under SpecFmt. *)

\* the ladder table: the denominator and the unit of a byte magnitude
Table(n) ==
    IF n < 1000 THEN <<1, "events/byte">>
    ELSE IF n < 1000000 THEN <<1000, "events/kilobyte">>
    ELSE IF n < 1000000000 THEN <<1000000, "events/megabyte">>
    ELSE <<1000000000, "events/gigabyte">>

AsPair(sel) == <<sel[1].num, sel[2]>>

\* the normalization of a value and the unit of a throughput
Norm(t, v) ==
    IF t.kind = "BytesDecimal"
    THEN FDiv(FDiv(v, to_f64(t.n)), to_f64(Table(t.n)[1]))
    ELSE FDiv(v, to_f64(t.n))

UnitOf(t) ==
    IF t.kind = "BytesDecimal" THEN Table(t.n)[2]
    ELSE IF t.kind = "Bytes" THEN "events/byte"
    ELSE "events/element"

\* C4: with BytesDecimal(n), format_throughput and scale_throughputs select the same
\* (denominator, unit), the one of the ladder table; a boundary takes the larger unit.
C4_LadderTable ==
    throughput.kind = "BytesDecimal" =>
        /\ selF # <<>> => (selF[1].cls = "fin" /\ selF[1].den = 1 /\ AsPair(selF) = Table(throughput.n))
        /\ selS # <<>> => (selS[1].cls = "fin" /\ selS[1].den = 1 /\ AsPair(selS) = Table(throughput.n))
        /\ (selF # <<>> /\ selS # <<>>) => selF = selS
        /\ (selF # <<>> /\ throughput.n \in {1000, 1000000, 1000000000})
                => selF[1].num = throughput.n

C4_Witness ==
    /\ throughput = [kind |-> "BytesDecimal", n |-> 1000000000]
    /\ selF # <<>> /\ selS # <<>>
    /\ AsPair(selF) = <<1000000000, "events/gigabyte">>
    /\ AsPair(selS) = <<1000000000, "events/gigabyte">>

\* C8: format_throughput renders, and scale_throughputs stores in every element, the
\* value divided by the magnitude (and for BytesDecimal then by the ladder
\* denominator); the slice keeps its length and order and the returned label is the
\* unit format_throughput appends; format_throughput(Bytes(512), 1024.0) is
\* "2.0000 events/byte".
C8_SameNormalization ==
    /\ fop = "format_throughput" =>
            out = Fmt4(Norm(throughput, value)) \o " " \o UnitOf(throughput)
    /\ fop = "scale_throughputs" =>
            /\ Len(slice) = Len(before)
            /\ \A i \in DOMAIN before : slice[i] = Norm(throughput, before[i])
            /\ label = UnitOf(throughput)
    /\ (fop = "format_throughput" /\ throughput = [kind |-> "Bytes", n |-> 512]
            /\ value = to_f64(1024)) => out = "2.0000 events/byte"

C8_Witness ==
    /\ fop = "scale_throughputs"
    /\ throughput = [kind |-> "BytesDecimal", n |-> 2000000]
    /\ before = <<to_f64(4000000), to_f64(0)>>
    /\ slice = <<[cls |-> "fin", num |-> 1, den |-> 500000], to_f64(0)>>
    /\ value = to_f64(4000000)
    /\ out = "0.0000 events/megabyte"
    /\ label = "events/megabyte"

\* C9: scale_values and scale_for_machines leave every element of the slice as it
\* was and return "events".
C9_ScaleValuesIsNoOp ==
    fop \in {"scale_values", "scale_for_machines"} =>
        /\ slice = before
        /\ label = "events"

C9_Witness ==
    /\ fop = "scale_values"
    /\ Len(slice) = 2
    /\ slice[1] = [cls |-> "fin", num |-> 2, den |-> 1]
    /\ slice[2] = to_f64(0)
    /\ label = "events"

====
